---- MODULE Spec2Model ----
(***************************************************************************)
(* A model of pg_tpch's partitioned load pipeline (src/src/lib.rs): the    *)
(* entry point tpch_load, the reset statement truncate_tables and the      *)
(* per-table loader generate_and_copy_csv_table, run against a store of    *)
(* eight tables and a staging directory shared by all invocations.         *)
(*                                                                         *)
(* An invocation is split into steps at each access to shared state (the   *)
(* store, the staging directory), so that invocations can interleave.      *)
(*                                                                         *)
(* Abstractions: a staged file is a sequence of line-sized slots (all      *)
(* lines are taken to have the same length, so that a write at a line      *)
(* offset replaces exactly one line); the store applies each statement     *)
(* atomically and keeps what a statement has written (the code issues no   *)
(* compensating action; the store's own transaction scope is not modelled).*)
(***************************************************************************)
EXTENDS Integers, Sequences, FiniteSets, Bags, TLC

\* ------------------------------------------------------------------ bounds

\* Workers that run concurrently in SpecConc (beside the step-0 invocation).
NumProcs == 2
\* Invocations a session issues one after another in Spec.
MaxCalls == 2
\* Largest `children` argument (low word) a caller passes in Spec.
MaxChildren == 2
\* Rows the Row Source holds per table and unit of scale factor.
RowsPerTable == 3
\* How far below 1 and above the last query number the numbers passed to
\* tpch_query reach.
QuerySpan == 40

\* --------------------------------------------------------------- constants

\* lib.rs:108 and 172-203: the eight tables, in load order.
TableNames ==
    <<"region", "nation", "part", "supplier", "partsupp", "customer", "orders", "lineitem">>

Tables == 1..Len(TableNames)

\* Invocation slots: 0 is the session of Spec and the step-0 caller of SpecConc.
Procs == 0..NumProcs

Workers == 1..NumProcs

\* The scale factors a caller passes: the sentinel 0 and the default 1
\* (lib.rs:115).
ScaleFactors == {0, 1}

\* ------------------------------------------------------- 64-bit arguments
\* An i64 is <<hi, lo>>, standing for hi * 2^32 + lo with lo a signed 32-bit
\* value; the order on these pairs is the order on the integers they stand for.

Hi(x) == x[1]

Lo(x) == x[2]

I64(n) == <<0, n>>

I64Lt(a, b) == Hi(a) < Hi(b) \/ (Hi(a) = Hi(b) /\ Lo(a) < Lo(b))

I64Le(a, b) == a = b \/ I64Lt(a, b)

\* x + 1 on i64 (carry into the high word at the top of the low word).
I64Succ(a) ==
    IF Lo(a) = 2147483647 THEN <<Hi(a) + 1, -2147483647 - 1>> ELSE <<Hi(a), Lo(a) + 1>>

\* `x as i32` (lib.rs:135-136): keeps the low 32 bits.
AsI32(a) == Lo(a)

\* `x as usize` (lib.rs:126-127): the value modulo 2^64, written as
\* wraps * 2^64 + <<hi, lo>>.
AsUsize(a) == [wraps |-> IF Hi(a) < 0 \/ (Hi(a) = 0 /\ Lo(a) < 0) THEN 1 ELSE 0, off |-> a]

\* Arguments beyond the 32-bit range: 2^32 + 1 partitions, and the last step of
\* such a load, 2^32.
WideChildren == <<1, 1>>

WideStep == <<1, 0>>

\* The partition arguments a caller passes in Spec: valid and invalid ones.
ChildrenArgs == {I64(n) : n \in -1..MaxChildren} \cup {WideChildren}

StepArgs == {I64(n) : n \in -1..MaxChildren} \cup {WideStep}

\* ------------------------------------------------------------- Row Source

\* Number of rows of a table at a scale factor.
RowCount(sf) == RowsPerTable * sf

\* The rows of table t that partition `part` of `num_parts` owns: contiguous
\* chunks of the table's rows 1..RowCount(sf), in ascending order. The chunks of
\* parts 1..num_parts are disjoint and cover the table.
Generator(t, sf, part, num_parts) ==
    LET n == RowCount(sf)
        all == [i \in 1..n |-> i]
        Owns(i) == num_parts >= 1 /\ ((i - 1) * num_parts) \div n + 1 = part
    IN  SelectSeq(all, Owns)

\* The whole table at a scale factor (one partition of one).
AllRows(sf) == 1..RowCount(sf)

\* ---------------------------------------------------------- transfer format

Hole == [kind |-> "hole", t |-> 0, r |-> 0]

\* <$csv_formatter>::header(), lib.rs:148.
CsvHeader(t) == [kind |-> "header", t |-> t, r |-> 0]

\* <$csv_formatter>::new(item), lib.rs:152.
CsvLine(t, r) == [kind |-> "row", t |-> t, r |-> r]

Range(s) == {s[i] : i \in DOMAIN s}

BagOfSeq(s) == [x \in Range(s) |-> Cardinality({i \in DOMAIN s : s[i] = x})]

\* The lines the store reads from a file: a hole has no line end, so it runs
\* into the slot after it and spoils that line.
PhysLines(slots) ==
    LET idx == SelectSeq([i \in 1..Len(slots) |-> i],
                         LAMBDA i : slots[i].line.kind # "hole" \/ i = Len(slots))
    IN  [j \in 1..Len(idx) |->
            [line  |-> slots[idx[j]].line,
             clean |-> slots[idx[j]].line.kind # "hole"
                       /\ (idx[j] = 1 \/ slots[idx[j] - 1].line.kind # "hole")]]

\* COPY t FROM file WITH (FORMAT csv, HEADER true): the first line is skipped,
\* every other line must be a row of t.
CopyData(slots) ==
    IF PhysLines(slots) = <<>> THEN <<>> ELSE Tail(PhysLines(slots))

\* Whether the store accepts the file (an empty file holds no rows).
CopyAccepts(t, slots) ==
    \A j \in DOMAIN CopyData(slots) :
        LET l == CopyData(slots)[j]
        IN  l.clean /\ l.line.kind = "row" /\ l.line.t = t

\* The rows the store parses from the file's lines.
CopyRows(slots) == [j \in DOMAIN CopyData(slots) |-> CopyData(slots)[j].line.r]

\* ------------------------------------------------------------ staging area

NoFile == [exists |-> FALSE]

NoFd == [open |-> FALSE]

\* lib.rs:141-144: dir.join(format!("{}.csv", $table_name)). The path is named
\* by the table alone.
FilePath(p, t) == TableNames[t]

Paths == {FilePath(p, t) : p \in Procs, t \in Tables}

\* write(2) at the descriptor's offset: replaces the slot there, or extends the
\* file, leaving a hole when the file has been cut short below the offset.
WriteAt(slots, off, slot) ==
    IF off < Len(slots) THEN [slots EXCEPT ![off + 1] = slot]
    ELSE slots \o [i \in 1..(off - Len(slots)) |-> [line |-> Hole, by |-> slot.by]] \o <<slot>>

\* ------------------------------------------------------------------ state

VARIABLES
    tables,     \* the store: table -> bag of rows
    dirExists,  \* whether TPCH_DATA_DIR exists
    staging,    \* the staging directory: path -> file or NoFile
    pc,         \* invocation -> the step it is at
    args,       \* invocation -> the arguments of tpch_load
    cur,        \* invocation -> the table being loaded (0: none yet)
    todo,       \* invocation -> rows the generator has yet to yield
    gen,        \* invocation -> the generator of the table being loaded
    fd,         \* invocation -> the open file of the table being loaded
    result,     \* invocation -> what tpch_load gave its caller
    trace,      \* history: invocation -> the store and staging operations it issued
    before,     \* history: invocation -> the store when the invocation started
    callNo,     \* history: slot -> invocations started in it
    chain,      \* history: progress of a run of step 0, 1, 2, ... of one load
    last,       \* history: the session's previous call, if a reset-only call
    query       \* what the last tpch_query gave its caller

vars ==
    <<tables, dirExists, staging, pc, args, cur, todo, gen, fd, result, trace, before,
      callNo, chain, last, query>>

\* The identity of the invocation running in slot p.
Me(p) == <<p, callNo[p]>>

NoArgs == [sf |-> 0, children |-> I64(0), step |-> I64(0)]

NoResult == [kind |-> "none"]

NoGen == [built |-> FALSE]

NoLast == [reset |-> FALSE]

\* lib.rs:121.
OkTruncated == [kind |-> "ok", msg |-> [text |-> "TPC-H tables truncated"]]

\* lib.rs:205-210: format!("TPC-H SF={} loaded (part {}/{})", sf, step + 1, children).
OkLoaded(a) ==
    [kind |-> "ok",
     msg  |-> [text |-> "TPC-H SF={} loaded (part {}/{})",
               sf |-> a.sf, part |-> I64Succ(a.step), of |-> a.children]]

\* lib.rs:125-128.
ErrInvalid(a) ==
    [kind |-> "err", error |-> "PreparedStatementArgumentMismatch",
     expected |-> AsUsize(a.children), got |-> AsUsize(a.step)]

\* The error of a failed Spi::run, passed on by `?` (lib.rs:120, 132, 163).
ErrSpi == [kind |-> "err", error |-> "SpiError"]

\* A failed .unwrap() on an io::Result (lib.rs:142-165): the call unwinds.
Panic == [kind |-> "panic", error |-> "io::Error"]

NoChain == [active |-> FALSE, sf |-> 0, n |-> I64(0), next |-> 0, resets |-> 0]

\* An entry of the history of an invocation.
Ev(op, t) == [op |-> op, t |-> t, ok |-> TRUE, rows |-> EmptyBag, ino |-> <<>>, by |-> {}]

Resets(tr) == {i \in DOMAIN tr : tr[i].op = "reset"}

\* The run of calls (sf, N, 0), (sf, N, 1), ... each ended in success: where it
\* stands once an invocation with arguments a has ended with result res.
ChainAfter(ch, a, res, tr) ==
    IF res.kind = "ok" /\ a.sf # 0 /\ a.step = I64(0)
    THEN [active |-> TRUE, sf |-> a.sf, n |-> a.children, next |-> 1, resets |-> 0]
    ELSE IF /\ res.kind = "ok" /\ a.sf # 0 /\ ch.active
            /\ ch.sf = a.sf /\ ch.n = a.children /\ a.step = I64(ch.next)
    THEN [ch EXCEPT !.next = @ + 1, !.resets = @ + Cardinality(Resets(tr))]
    ELSE NoChain

Init ==
    /\ tables = [t \in Tables |-> EmptyBag]
    /\ dirExists = FALSE
    /\ staging = [f \in Paths |-> NoFile]
    /\ pc = [p \in Procs |-> "idle"]
    /\ args = [p \in Procs |-> NoArgs]
    /\ cur = [p \in Procs |-> 0]
    /\ todo = [p \in Procs |-> <<>>]
    /\ gen = [p \in Procs |-> NoGen]
    /\ fd = [p \in Procs |-> NoFd]
    /\ result = [p \in Procs |-> NoResult]
    /\ trace = [p \in Procs |-> <<>>]
    /\ before = [p \in Procs |-> [t \in Tables |-> EmptyBag]]
    /\ callNo = [p \in Procs |-> 0]
    /\ chain = NoChain
    /\ last = NoLast
    /\ query = NoResult

\* ------------------------------------------------------- tpch_load, entry

\* Mutant: the sentinel test takes a negative scale factor for the sentinel.
ShortCircuit_Negative(sf) == sf < 0

\* lib.rs:119: `if sf == 0.`, tested before the partition arguments.
ShortCircuit(sf) == sf = 0

\* Mutant: the validation without its upper bound on step.
InvalidSpec_NoUpperBound(children, step) ==
    I64Lt(children, I64(1)) \/ I64Lt(step, I64(0))

\* Mutant: the validation turns down the last step of a load.
InvalidSpec_RejectsLastStep(children, step) ==
    I64Lt(children, I64(1)) \/ I64Lt(step, I64(0)) \/ I64Le(children, I64Succ(step))

\* lib.rs:124: children < 1 || step < 0 || step >= children.
InvalidSpec(children, step) ==
    I64Lt(children, I64(1)) \/ I64Lt(step, I64(0)) \/ I64Le(children, step)

\* Mutant: no step resets.
NeedsReset_Never(step) == FALSE

\* Mutant: every step resets.
NeedsReset_Always(step) == TRUE

\* lib.rs:131: `if step == 0`.
NeedsReset(step) == step = I64(0)

\* Mutant: the zero-based step is passed on as the partition number.
PartNumber_ZeroBased(step) == AsI32(step)

\* lib.rs:135: let part = (step + 1) as i32.
PartNumber(step) == AsI32(I64Succ(step))

\* lib.rs:136: let num_parts = children as i32.
NumParts(children) == AsI32(children)

\* lib.rs:172-203: <Table>Generator::new(sf, part, num_parts).
NewGenerator(t, sf, part, num_parts) ==
    [built |-> TRUE, t |-> t, sf |-> sf, part |-> part, num_parts |-> num_parts]

\* lib.rs:172: the first macro invocation loads the first table.
FirstTable == Head([i \in 1..Len(TableNames) |-> i])

\* Mutant: every other table is left out.
NextTable_Skip(k) == k + 2

\* lib.rs:172-203: the macro invocations follow each other in source order.
NextTable(k) == k + 1

\* Mutant: the statement names the first table only.
TruncateTables_FirstOnly(tbls) ==
    [t \in Tables |-> IF t = FirstTable THEN EmptyBag ELSE tbls[t]]

\* Mutant: the statement empties a table that holds rows and puts a row into a
\* table that holds none.
TruncateTables_Toggle(tbls) ==
    [t \in Tables |-> IF tbls[t] = EmptyBag THEN SetToBag({1}) ELSE EmptyBag]

\* lib.rs:105-111: one TRUNCATE statement over all eight tables.
TruncateTables(tbls) == [t \in Tables |-> EmptyBag]

\* The invocation in slot p ends with res, its history being tr.
Done(p, a, res, tr) ==
    /\ pc' = [pc EXCEPT ![p] = "done"]
    /\ result' = [result EXCEPT ![p] = res]
    /\ trace' = [trace EXCEPT ![p] = tr]
    /\ chain' = ChainAfter(chain, a, res, tr)
    /\ fd' = [fd EXCEPT ![p] = NoFd]

\* lib.rs:114-136: the call enters tpch_load and runs up to its first statement
\* on the store or the staging directory.
TpchLoad(p, sf, children, step) ==
    LET a == [sf |-> sf, children |-> children, step |-> step]
    IN  /\ pc[p] = "idle"
        /\ args' = [args EXCEPT ![p] = a]
        /\ callNo' = [callNo EXCEPT ![p] = @ + 1]
        /\ before' = [before EXCEPT ![p] = tables]
        /\ IF ShortCircuit(sf)
           THEN /\ pc' = [pc EXCEPT ![p] = "reset_only"]
                /\ UNCHANGED <<result, trace, chain, fd, cur>>
           ELSE IF InvalidSpec(children, step)
           THEN /\ Done(p, a, ErrInvalid(a), <<>>)
                /\ UNCHANGED cur
           ELSE IF NeedsReset(step)
           THEN /\ pc' = [pc EXCEPT ![p] = "reset"]
                /\ UNCHANGED <<result, trace, chain, fd, cur>>
           ELSE /\ pc' = [pc EXCEPT ![p] = "create"]
                /\ cur' = [cur EXCEPT ![p] = FirstTable]
                /\ UNCHANGED <<result, trace, chain, fd>>
        /\ UNCHANGED <<tables, dirExists, staging, todo, gen, last, query>>

\* lib.rs:119-122: truncate_tables()? and the success message.
TruncateOnly(p) ==
    /\ pc[p] = "reset_only"
    /\ \/ /\ tables' = TruncateTables(tables)
          /\ Done(p, args[p], OkTruncated, Append(trace[p], Ev("reset", 0)))
       \/ /\ Done(p, args[p], ErrSpi, Append(trace[p], [Ev("reset", 0) EXCEPT !.ok = FALSE]))
          /\ UNCHANGED tables
    /\ UNCHANGED <<dirExists, staging, args, cur, todo, gen, before, callNo, last, query>>

\* lib.rs:131-133: truncate_tables()? before the first table of step 0.
TruncateFirst(p) ==
    /\ pc[p] = "reset"
    /\ \/ /\ tables' = TruncateTables(tables)
          /\ pc' = [pc EXCEPT ![p] = "create"]
          /\ cur' = [cur EXCEPT ![p] = FirstTable]
          /\ trace' = [trace EXCEPT ![p] = Append(@, Ev("reset", 0))]
          /\ UNCHANGED <<result, chain, fd>>
       \/ /\ Done(p, args[p], ErrSpi, Append(trace[p], [Ev("reset", 0) EXCEPT !.ok = FALSE]))
          /\ UNCHANGED <<tables, cur>>
    /\ UNCHANGED <<dirExists, staging, args, todo, gen, before, callNo, last, query>>

\* ---------------------------------------- generate_and_copy_csv_table, steps

\* The path of the file of the table invocation p is loading.
MyPath(p) == FilePath(p, cur[p])

\* Whether the descriptor of p still names the file at its path (the path has
\* not been unlinked, or unlinked and created anew, since p opened it).
Linked(p) ==
    /\ fd[p].open
    /\ staging[MyPath(p)].exists
    /\ staging[MyPath(p)].ino = fd[p].ino

\* Mutant: an existing file is opened as it is, not cut to length 0.
FileCreate_KeepsContent(p, f) ==
    IF f.exists THEN f ELSE [exists |-> TRUE, ino |-> Me(p), slots |-> <<>>]

\* fs::File::create (lib.rs:145): opens the path for writing, cutting an existing
\* file to length 0 and creating the file when there is none.
FileCreate(p, f) ==
    IF f.exists THEN [f EXCEPT !.slots = <<>>]
    ELSE [exists |-> TRUE, ino |-> Me(p), slots |-> <<>>]

\* writeln!(&mut file, ...) (lib.rs:148, 152): one line at the descriptor's
\* offset; a write to an unlinked file is seen by nobody.
Written(p, line) ==
    IF Linked(p)
    THEN [staging EXCEPT ![MyPath(p)].slots =
              WriteAt(@, fd[p].off, [line |-> line, by |-> Me(p)])]
    ELSE staging

\* Mutant: a missing file is not an error for the removal.
RemoveFails_Never(exists) == FALSE

\* fs::remove_file (lib.rs:165) fails when there is no file at the path.
RemoveFails(exists) == ~exists

\* Mutant: a failed ingest is dropped and the load goes on.
IngestErrorSwallowed == FALSE

\* lib.rs:163 and 172-203: `?` passes a failed ingest on to the caller of
\* tpch_load, so the tables after it are not loaded.
IngestErrorAborts == TRUE

\* Mutant: the message is returned once the last table but one is loaded.
IsLast_OneEarly(k) == NextTable(NextTable(k)) \notin Tables

\* lib.rs:172-203: whether table k is the last one loaded.
IsLast(k) == NextTable(k) \notin Tables

\* The closure of table cur[p] returned Ok(()): the next macro invocation starts,
\* or tpch_load returns its message (lib.rs:205-210).
Advance(p, tr) ==
    IF IsLast(cur[p])
    THEN /\ Done(p, args[p], OkLoaded(args[p]), tr)
         /\ UNCHANGED cur
    ELSE /\ pc' = [pc EXCEPT ![p] = "create"]
         /\ cur' = [cur EXCEPT ![p] = NextTable(@)]
         /\ trace' = [trace EXCEPT ![p] = tr]
         /\ fd' = [fd EXCEPT ![p] = NoFd]
         /\ UNCHANGED <<result, chain>>

\* An .unwrap() of lib.rs:142-165 failed on an I/O error of the environment.
IoPanic(p, phase) ==
    /\ Done(p, args[p], Panic, Append(trace[p], [Ev(phase, cur[p]) EXCEPT !.ok = FALSE]))

\* lib.rs:141-145: create_dir_all, then File::create.
CreateFile(p) ==
    /\ pc[p] = "create"
    /\ \/ /\ dirExists' = TRUE
          /\ staging' = [staging EXCEPT ![MyPath(p)] = FileCreate(p, @)]
          /\ fd' = [fd EXCEPT ![p] = [open |-> TRUE, ino |-> staging'[MyPath(p)].ino, off |-> 0]]
          /\ pc' = [pc EXCEPT ![p] = "header"]
          /\ trace' = [trace EXCEPT ![p] =
                 Append(@, [Ev("create", cur[p]) EXCEPT
                               !.ino = staging'[MyPath(p)].ino,
                               !.by = IF staging[MyPath(p)].exists
                                      THEN {staging[MyPath(p)].slots[i].by :
                                               i \in DOMAIN staging[MyPath(p)].slots}
                                      ELSE {}])]
          /\ UNCHANGED <<result, chain>>
       \/ \* create_dir_all failed
          /\ IoPanic(p, "create")
          /\ UNCHANGED <<dirExists, staging>>
       \/ \* File::create failed
          /\ IoPanic(p, "create")
          /\ dirExists' = TRUE
          /\ UNCHANGED staging
    /\ UNCHANGED <<tables, args, cur, todo, gen, before, callNo, last, query>>

\* lib.rs:148: the header line; then the generator is built (lib.rs:151).
WriteHeader(p) ==
    /\ pc[p] = "header"
    /\ \/ /\ staging' = Written(p, CsvHeader(cur[p]))
          /\ fd' = [fd EXCEPT ![p].off = @ + 1]
          /\ gen' = [gen EXCEPT ![p] =
                 NewGenerator(cur[p], args[p].sf, PartNumber(args[p].step),
                              NumParts(args[p].children))]
          /\ todo' = [todo EXCEPT ![p] =
                 Generator(cur[p], gen'[p].sf, gen'[p].part, gen'[p].num_parts)]
          /\ pc' = [pc EXCEPT ![p] = IF todo'[p] = <<>> THEN "canonicalize" ELSE "rows"]
          /\ UNCHANGED <<result, chain, trace>>
       \/ /\ IoPanic(p, "header")
          /\ UNCHANGED <<staging, todo, gen>>
    /\ UNCHANGED <<tables, dirExists, args, cur, before, callNo, last, query>>

\* lib.rs:151-153: one row of the generator, one line.
WriteRow(p) ==
    /\ pc[p] = "rows"
    /\ \/ /\ staging' = Written(p, CsvLine(cur[p], Head(todo[p])))
          /\ fd' = [fd EXCEPT ![p].off = @ + 1]
          /\ todo' = [todo EXCEPT ![p] = Tail(@)]
          /\ pc' = [pc EXCEPT ![p] = IF todo'[p] = <<>> THEN "canonicalize" ELSE "rows"]
          /\ UNCHANGED <<result, chain, trace>>
       \/ /\ IoPanic(p, "rows")
          /\ UNCHANGED <<staging, todo>>
    /\ UNCHANGED <<tables, dirExists, args, cur, gen, before, callNo, last, query>>

\* lib.rs:155: fs::canonicalize(&file_path).unwrap().
Canonicalize(p) ==
    /\ pc[p] = "canonicalize"
    /\ \/ /\ staging[MyPath(p)].exists
          /\ pc' = [pc EXCEPT ![p] = "copy"]
          /\ UNCHANGED <<result, chain, trace, fd>>
       \/ \* no file at the path, or another I/O error
          IoPanic(p, "canonicalize")
    /\ UNCHANGED <<tables, dirExists, staging, args, cur, todo, gen, before, callNo, last, query>>

\* lib.rs:157-163: Spi::run of COPY <table> FROM '<path>'; the store reads the
\* file that is at the path when the statement runs.
Copy(p) ==
    LET f == staging[MyPath(p)]
        good == f.exists /\ CopyAccepts(cur[p], f.slots)
        failed == Append(trace[p], [Ev("ingest", cur[p]) EXCEPT !.ok = FALSE])
    IN  /\ pc[p] = "copy"
        /\ \/ /\ good
              /\ tables' = [tables EXCEPT ![cur[p]] = @ (+) BagOfSeq(CopyRows(f.slots))]
              /\ pc' = [pc EXCEPT ![p] = "remove"]
              /\ trace' = [trace EXCEPT ![p] =
                     Append(@, [Ev("ingest", cur[p]) EXCEPT
                                   !.rows = BagOfSeq(CopyRows(f.slots)),
                                   !.ino = f.ino,
                                   !.by = {f.slots[i].by : i \in DOMAIN f.slots}])]
              /\ UNCHANGED <<result, chain, fd, cur>>
           \/ \* the store rejects the statement: the file is missing or holds a
              \* malformed line, or the store fails for a reason of its own
              /\ IF IngestErrorAborts
                 THEN Done(p, args[p], ErrSpi, failed) /\ UNCHANGED cur
                 ELSE Advance(p, failed)
              /\ UNCHANGED tables
        /\ UNCHANGED <<dirExists, staging, args, todo, gen, before, callNo, last, query>>

\* lib.rs:165-167: fs::remove_file(&file_path).unwrap(), then Ok(()).
RemoveFile(p) ==
    LET f == staging[MyPath(p)]
    IN  /\ pc[p] = "remove"
        /\ \/ /\ ~RemoveFails(f.exists)
              /\ staging' = [staging EXCEPT ![MyPath(p)] = NoFile]
              /\ Advance(p, Append(trace[p],
                     [Ev("delete", cur[p]) EXCEPT
                         !.ok = f.exists,
                         !.ino = IF f.exists THEN f.ino ELSE <<>>]))
           \/ \* no file at the path, or another I/O error
              /\ IoPanic(p, "delete")
              /\ UNCHANGED <<staging, cur>>
        /\ UNCHANGED <<tables, dirExists, args, todo, gen, before, callNo, last, query>>

\* The caller has taken the result; the slot is free for its next call.
Return(p) ==
    /\ pc[p] = "done"
    /\ pc' = [pc EXCEPT ![p] = "idle"]
    /\ args' = [args EXCEPT ![p] = NoArgs]
    /\ cur' = [cur EXCEPT ![p] = 0]
    /\ todo' = [todo EXCEPT ![p] = <<>>]
    /\ gen' = [gen EXCEPT ![p] = NoGen]
    /\ result' = [result EXCEPT ![p] = NoResult]
    /\ trace' = [trace EXCEPT ![p] = <<>>]
    /\ before' = [before EXCEPT ![p] = [t \in Tables |-> EmptyBag]]
    /\ last' = IF ShortCircuit(args[p].sf)
               THEN [reset |-> TRUE, result |-> result[p], before |-> before[p]]
               ELSE NoLast
    /\ UNCHANGED <<tables, dirExists, staging, fd, callNo, chain, query>>

\* -------------------------------------------------------------- tpch_query

\* The variables of the load pipeline, which tpch_query leaves alone.
loadVars ==
    <<tables, dirExists, staging, pc, args, cur, todo, gen, fd, result, trace, before,
      callNo, chain, last>>

\* The catalog holds the benchmark's queries 1..22 (lib.rs:226, 244).
NumQueries == 22

\* queries::QUERIES: pairs (number, text), in ascending order of number.
QUERIES == [i \in 1..NumQueries |-> <<i, [text |-> "query", nr |-> i]>>]

\* The query numbers a caller passes: every number of the catalog, and numbers
\* below and above it.
QueryNumbers == (1 - QuerySpan)..(NumQueries + QuerySpan)

None == [some |-> FALSE]

Some(x) == [some |-> TRUE, value |-> x]

\* lib.rs:223-225: QUERIES.iter().find(|query| query.0 == query_nr).
Find(query_nr) ==
    LET hits == SelectSeq(QUERIES, LAMBDA q : q[1] = query_nr)
    IN  IF hits = <<>> THEN None ELSE Some(Head(hits))

\* lib.rs:226: .expect(...) on the Option: the value of Some, a panic with the
\* message on None; lib.rs:227: Ok(query.1.to_string()).
Expect(opt, query_nr) ==
    IF opt.some
    THEN [kind |-> "ok", nr |-> query_nr, text |-> opt.value[2]]
    ELSE [kind |-> "panic", nr |-> query_nr,
          error |-> "Invalid query number must be between 1 and 22 (inclusive)"]

\* lib.rs:221-228.
TpchQuery(query_nr) ==
    /\ query = NoResult
    /\ query' = Expect(Find(query_nr), query_nr)
    /\ UNCHANGED loadVars

\* The caller has taken the result of tpch_query.
QueryReturn ==
    /\ query # NoResult
    /\ query' = NoResult
    /\ UNCHANGED loadVars

\* ------------------------------------------------------------ specifications

\* A session calls tpch_load with any arguments, one call after another.
Call(p) ==
    /\ \A q \in Procs : pc[q] = "idle"
    /\ callNo[p] < MaxCalls
    /\ \E sf \in ScaleFactors, children \in ChildrenArgs, step \in StepArgs :
          TpchLoad(p, sf, children, step)

LoadStep(p) ==
    \/ TruncateFirst(p)
    \/ CreateFile(p)
    \/ WriteHeader(p)
    \/ WriteRow(p)
    \/ Canonicalize(p)
    \/ Copy(p)
    \/ RemoveFile(p)

Next ==
    \/ Call(0)
    \/ TruncateOnly(0)
    \/ LoadStep(0)
    \/ Return(0)

Spec == Init /\ [][Next]_vars

\* A coordinated load in NumProcs + 1 partitions: the caller runs step 0 to
\* success, then starts steps 1..NumProcs, each in a session of its own, which
\* run at the same time.
ConcChildren == I64(NumProcs + 1)

ConcSF == 1

CallFirst ==
    /\ callNo[0] = 0
    /\ TpchLoad(0, ConcSF, ConcChildren, I64(0))

CallWorker(p) ==
    /\ callNo[p] = 0
    /\ pc[0] = "done"
    /\ result[0].kind = "ok"
    /\ TpchLoad(p, ConcSF, ConcChildren, I64(p))

NextConc ==
    \/ CallFirst
    \/ \E p \in Workers : CallWorker(p)
    \/ \E p \in Procs : LoadStep(p)

SpecConc == Init /\ [][NextConc]_vars

\* Reset-only calls, one after another, over a store that holds any contents:
\* each table is empty or holds the rows of a load.
TableContents == {EmptyBag, SetToBag(AllRows(ConcSF))}

InitReset ==
    /\ tables \in [Tables -> TableContents]
    /\ dirExists = FALSE
    /\ staging = [f \in Paths |-> NoFile]
    /\ pc = [p \in Procs |-> "idle"]
    /\ args = [p \in Procs |-> NoArgs]
    /\ cur = [p \in Procs |-> 0]
    /\ todo = [p \in Procs |-> <<>>]
    /\ gen = [p \in Procs |-> NoGen]
    /\ fd = [p \in Procs |-> NoFd]
    /\ result = [p \in Procs |-> NoResult]
    /\ trace = [p \in Procs |-> <<>>]
    /\ before = [p \in Procs |-> [t \in Tables |-> EmptyBag]]
    /\ callNo = [p \in Procs |-> 0]
    /\ chain = NoChain
    /\ last = NoLast
    /\ query = NoResult

CallReset(p) ==
    /\ pc[p] = "idle"
    /\ callNo[p] < MaxCalls
    /\ \E sf \in {sf \in ScaleFactors : ShortCircuit(sf)},
          children \in ChildrenArgs, step \in StepArgs :
          TpchLoad(p, sf, children, step)

NextReset ==
    \/ CallReset(0)
    \/ TruncateOnly(0)
    \/ Return(0)

SpecReset == InitReset /\ [][NextReset]_vars

\* A session calls tpch_query with any number, one call after another.
NextQuery ==
    \/ \E query_nr \in QueryNumbers : TpchQuery(query_nr)
    \/ QueryReturn

SpecQuery == Init /\ [][NextQuery]_vars

\* ------------------------------------------------------- the claims' terms

Empty == [t \in Tables |-> EmptyBag]

\* The partition arguments the contract calls invalid.
ArgsInvalid(a) ==
    I64Lt(a.children, I64(1)) \/ I64Lt(a.step, I64(0)) \/ ~I64Lt(a.step, a.children)

\* The load order the contract states.
ClaimedOrder ==
    <<"region", "nation", "part", "supplier", "partsupp", "customer", "orders", "lineitem">>

OpsOf(tr, op) == {i \in DOMAIN tr : tr[i].op = op}

LoaderOps == {"create", "header", "rows", "canonicalize", "ingest", "delete"}

\* The rows the ingests recorded in tr added to table t.
RECURSIVE SumRows(_, _)
SumRows(tr, t) ==
    IF tr = <<>> THEN EmptyBag
    ELSE LET e == Head(tr)
         IN  (IF e.op = "ingest" /\ e.ok /\ e.t = t THEN e.rows ELSE EmptyBag)
             (+) SumRows(Tail(tr), t)

\* The store an invocation's ingests add to: emptied by its reset, if it made one.
BaseOf(p) ==
    IF \E i \in OpsOf(trace[p], "reset") : trace[p][i].ok THEN Empty ELSE before[p]

Quiet == \A q \in Procs : pc[q] \in {"idle", "done"}

\* ---------------------------------------------------------------- claims

\* C1 (as stated): every call with sf == 0, whatever children and step are,
\* ends with the message "TPC-H tables truncated", all eight tables empty, and
\* nothing staged or ingested.
C1_ResetAlwaysSucceeds ==
    \A p \in Procs :
        (pc[p] = "done" /\ args[p].sf = 0) =>
            /\ result[p] = OkTruncated
            /\ tables = Empty
            /\ \A i \in DOMAIN trace[p] : trace[p][i].op = "reset"

\* C1 (amended): every call with sf == 0, whatever children and step are, issues
\* the reset and nothing else (no validation error, no staging, no ingest); when
\* the reset succeeds the call returns "TPC-H tables truncated" and all eight
\* tables are empty, and when the reset statement fails the call returns that
\* error and the tables are as they were.
C1_ResetShortCircuits ==
    \A p \in Procs :
        (pc[p] = "done" /\ args[p].sf = 0) =>
            /\ Len(trace[p]) = 1
            /\ trace[p][1].op = "reset"
            /\ IF trace[p][1].ok
               THEN result[p] = OkTruncated /\ tables = Empty
               ELSE result[p] = ErrSpi /\ tables = before[p]

\* A reset-only call with invalid partition arguments has emptied loaded tables.
C1_Witness ==
    \E p \in Procs :
        /\ pc[p] = "done" /\ args[p].sf = 0 /\ ArgsInvalid(args[p])
        /\ result[p] = OkTruncated
        /\ before[p] # Empty
        /\ tables = Empty

\* C2: a call with sf != 0 and invalid partition arguments fails with the
\* invalid-partition-spec error, issues no reset, stages and ingests nothing, and
\* leaves the eight tables as they were.
C2_InvalidSpecRejected ==
    \A p \in Procs :
        (pc[p] # "idle" /\ args[p].sf # 0 /\ ArgsInvalid(args[p])) =>
            /\ pc[p] = "done"
            /\ result[p].kind = "err"
            /\ result[p].error = "PreparedStatementArgumentMismatch"
            /\ trace[p] = <<>>
            /\ tables = before[p]

\* An invalid call was rejected over loaded tables.
C2_Witness ==
    \E p \in Procs :
        /\ pc[p] = "done" /\ args[p].sf # 0 /\ ArgsInvalid(args[p])
        /\ result[p] = ErrInvalid(args[p])
        /\ tables # Empty

\* C3: a call with sf > 0, valid partition arguments and step == 0 issues the
\* reset exactly once, as its first operation (so before its first ingest and
\* never after one), and every row it has ingested is in its table when it ends.
C3_ResetOnceBeforeLoad ==
    \A p \in Procs :
        (pc[p] # "idle" /\ args[p].sf > 0 /\ ~ArgsInvalid(args[p]) /\ args[p].step = I64(0)) =>
            /\ OpsOf(trace[p], "reset") = (IF pc[p] = "reset" THEN {} ELSE {1})
            /\ \A i \in OpsOf(trace[p], "ingest") : i > 1
            /\ pc[p] = "done" =>
                  \A t \in Tables : SumRows(trace[p], t) \sqsubseteq tables[t]

\* A step-0 load over loaded tables ended in success with its rows in place.
C3_Witness ==
    \E p \in Procs :
        /\ pc[p] = "done" /\ args[p].sf > 0 /\ args[p].step = I64(0)
        /\ result[p].kind = "ok"
        /\ before[p] # Empty
        /\ \A t \in Tables : tables[t] # EmptyBag /\ tables[t] = SumRows(trace[p], t)

\* C4: a call with sf > 0 and step > 0 issues no reset, and every row that was
\* in a table when it started is in that table throughout and when it ends, in
\* success or in failure.
C4_LaterStepsOnlyAppend ==
    \A p \in Procs :
        (pc[p] # "idle" /\ args[p].sf > 0 /\ I64Lt(I64(0), args[p].step)) =>
            /\ OpsOf(trace[p], "reset") = {}
            /\ \A t \in Tables : before[p][t] \sqsubseteq tables[t]

\* A step > 0 load appended its rows to the rows of an earlier partition.
C4_Witness ==
    \E p \in Procs :
        /\ pc[p] = "done" /\ args[p].sf > 0 /\ I64Lt(I64(0), args[p].step)
        /\ result[p].kind = "ok"
        /\ \A t \in Tables : before[p][t] # EmptyBag /\ before[p][t] # tables[t]

\* C5: after tpch_load(sf, N, 0), ..., tpch_load(sf, N, N-1) have run one after
\* another, each to success, every table holds each row of the table at that
\* scale factor exactly once (what the single load, N = 1, leaves), and no reset
\* was issued during steps 1..N-1.
C5_PartitionedLoadEqualsSingle ==
    (Quiet /\ chain.active /\ Hi(chain.n) = 0 /\ chain.next = Lo(chain.n)) =>
        /\ \A t \in Tables : tables[t] = SetToBag(AllRows(chain.sf))
        /\ chain.resets = 0

\* A load in two or more partitions has run to its last step.
C5_Witness ==
    /\ Quiet /\ chain.active /\ Hi(chain.n) = 0 /\ chain.next = Lo(chain.n)
    /\ Lo(chain.n) >= 2
    /\ \A t \in Tables : tables[t] # EmptyBag

\* C6: within an invocation the tables are loaded in the order region, nation,
\* part, supplier, partsupp, customer, orders, lineitem: when the ingest of a
\* table starts, every earlier table of the order has been staged, ingested and
\* its file deleted, in that order, and no table is staged or ingested twice.
C6_FixedTableOrder ==
    \A p \in Procs :
        LET tr == trace[p]
            NameAt(i) == TableNames[tr[i].t]
            Has(op, name, lo, hi) ==
                {i \in OpsOf(tr, op) : tr[i].ok /\ NameAt(i) = name /\ lo < i /\ i < hi}
        IN  /\ \A i \in OpsOf(tr, "ingest") :
                  \A k \in DOMAIN ClaimedOrder :
                      ClaimedOrder[k] = NameAt(i) =>
                          \A j \in 1..(k - 1) :
                              \E a \in Has("create", ClaimedOrder[j], 0, i) :
                              \E b \in Has("ingest", ClaimedOrder[j], a, i) :
                                  Has("delete", ClaimedOrder[j], b, i) # {}
            /\ \A i, j \in OpsOf(tr, "ingest") \cup OpsOf(tr, "create") :
                  (tr[i].op = tr[j].op /\ tr[i].t = tr[j].t) => i = j

\* All eight tables were loaded by one invocation.
C6_Witness ==
    \E p \in Procs :
        /\ pc[p] = "done" /\ result[p].kind = "ok"
        /\ Cardinality(OpsOf(trace[p], "ingest")) = Len(ClaimedOrder)
        /\ \A t \in Tables : SumRows(trace[p], t) # EmptyBag

\* C7: when a step of the load of table k fails, the invocation ends there with
\* that failure: the failed step is the last operation it issues (no later table
\* is staged or ingested, nothing is retried), its result is the failure, and
\* the tables hold what they held before plus the rows it had ingested (nothing
\* is rolled back).
C7_FailureAborts ==
    \A p \in Procs :
        \A i \in DOMAIN trace[p] :
            (~trace[p][i].ok /\ trace[p][i].op \in LoaderOps) =>
                /\ i = Len(trace[p])
                /\ pc[p] = "done"
                /\ result[p].kind \in {"err", "panic"}
                /\ cur[p] = trace[p][i].t
                /\ \A j \in 1..(i - 1) : trace[p][j].t <= cur[p]
                /\ \A t \in Tables : tables[t] = BaseOf(p)[t] (+) SumRows(trace[p], t)

\* An ingest failed after earlier tables had been loaded with rows.
C7_Witness ==
    \E p \in Procs :
        /\ pc[p] = "done" /\ result[p] = ErrSpi /\ cur[p] >= 2
        /\ \A t \in 1..(cur[p] - 1) : SumRows(trace[p], t) # EmptyBag /\ tables[t] # EmptyBag
        /\ \A t \in cur[p]..Len(TableNames) : tables[t] = EmptyBag

\* C8: when an invocation has ended, in success or with an error, no file it
\* staged remains in the staging directory.
C8_ArtifactsDeleted ==
    \A p \in Procs :
        pc[p] = "done" =>
            \A i \in OpsOf(trace[p], "create") :
                trace[p][i].ok => ~staging[FilePath(p, trace[p][i].t)].exists

\* C9: when invocations with the same children and distinct steps run at the
\* same time, the file an invocation hands to COPY is one it created and that
\* holds only lines it wrote, and no invocation opens (cutting it to length 0)
\* or deletes the file of another.
C9_NoArtifactCollision ==
    \A p \in Procs :
        \A i \in DOMAIN trace[p] :
            LET e == trace[p][i]
            IN  /\ (e.op = "create" /\ e.ok) => e.ino = Me(p)
                /\ (e.op = "ingest" /\ e.ok) => (e.ino = Me(p) /\ e.by \subseteq {Me(p)})
                /\ (e.op = "delete" /\ e.ok) => e.ino = Me(p)

\* The load of table t by p has returned Ok(()) to tpch_load.
LoadedTable(p, t) ==
    \/ pc[p] = "done" /\ result[p].kind = "ok"
    \/ pc[p] \in {"create", "header", "rows", "canonicalize", "copy", "remove"} /\ cur[p] > t

\* C10: once step 0 has completed, if steps 1..N-1 run at the same time and all
\* return success, every table holds each row of the table exactly once. Checked
\* table by table: as soon as the load of a table has succeeded in every
\* invocation, that table holds each of its rows exactly once.
C10_ConcurrentAppendsExact ==
    /\ \A t \in Tables :
          (\A p \in Procs : LoadedTable(p, t)) => tables[t] = SetToBag(AllRows(ConcSF))
    /\ (\A p \in Procs : pc[p] = "done" /\ result[p].kind = "ok") =>
          \A t \in Tables : tables[t] = SetToBag(AllRows(ConcSF))

\* All steps returned success, and the workers were running at the same time
\* (each started before any other worker's first ingest).
C10_Witness ==
    /\ \A p \in Procs : pc[p] = "done" /\ result[p].kind = "ok"
    /\ \A p, q \in Workers : before[p] = before[q]
    /\ \A t \in Tables : tables[t] # before[1][t]

\* C11 (as stated): every failed step of a table load (creating the directory or
\* the file, writing a line, resolving or deleting the file, the ingest) is
\* returned to the caller of tpch_load as the error value of its Result, naming
\* the table and the failing phase; no such failure ends the call in a panic.
C11_FailuresReturnedAsErrors ==
    \A p \in Procs :
        \A i \in DOMAIN trace[p] :
            (pc[p] = "done" /\ ~trace[p][i].ok /\ trace[p][i].op \in LoaderOps) =>
                /\ result[p].kind = "err"
                /\ {"table", "phase"} \subseteq DOMAIN result[p]
                /\ result[p].table = TableNames[trace[p][i].t]
                /\ result[p].phase = trace[p][i].op

\* The last operation invocation p issued is a reset.
JustReset(p) == trace[p] # <<>> /\ trace[p][Len(trace[p])].op = "reset"

\* C12: a reset is one statement over all eight tables: right after a reset
\* attempt either all eight tables are empty (it succeeded) or all eight are as
\* they were (it failed); no reset leaves some tables emptied and others not.
C12_ResetAllOrNothing ==
    \A p \in Procs :
        JustReset(p) =>
            IF trace[p][Len(trace[p])].ok
            THEN \A t \in Tables : tables[t] = EmptyBag
            ELSE \A t \in Tables : tables[t] = before[p][t]

\* The reset of a step-0 load has emptied eight tables that all held rows.
C12_Witness ==
    \E p \in Procs :
        /\ JustReset(p) /\ trace[p][Len(trace[p])].ok
        /\ pc[p] = "create"
        /\ \A t \in Tables : before[p][t] # EmptyBag /\ tables[t] = EmptyBag

\* C13 (as stated): for every request that passes validation, each table's
\* generator is built with (scaleFactor, step + 1, children): its partition
\* number is step + 1, its partition count is children, and
\* 1 <= partition number <= partition count.
C13_GeneratorsGetPartition ==
    \A p \in Procs :
        gen[p].built =>
            /\ gen[p].sf = args[p].sf
            /\ I64(gen[p].part) = I64Succ(args[p].step)
            /\ I64(gen[p].num_parts) = args[p].children
            /\ 1 <= gen[p].part /\ gen[p].part <= gen[p].num_parts

\* C14: a call with sf != 0, children >= 1 and 0 <= step < children never
\* returns the invalid-partition-spec error: it goes on to the reset (step 0) or
\* to the first table (step > 0), and has issued an operation when it ends.
C14_ValidSpecPassesValidation ==
    \A p \in Procs :
        (pc[p] # "idle" /\ args[p].sf # 0 /\ ~ArgsInvalid(args[p])) =>
            /\ ~(result[p].kind = "err" /\ result[p].error = "PreparedStatementArgumentMismatch")
            /\ \/ pc[p] = "reset" /\ args[p].step = I64(0) /\ trace[p] = <<>>
               \/ pc[p] = "create" /\ cur[p] = FirstTable /\ args[p].step # I64(0)
               \/ trace[p] # <<>>

\* The last step of a load in MaxChildren partitions passed validation and ran
\* to success.
C14_Witness ==
    \E p \in Procs :
        /\ pc[p] = "done" /\ args[p].sf # 0
        /\ args[p].children = I64(MaxChildren) /\ I64Succ(args[p].step) = args[p].children
        /\ result[p].kind = "ok"
        /\ Cardinality(OpsOf(trace[p], "ingest")) = Len(TableNames)

\* C15 (as stated): for every number outside 1..22, tpch_query returns the
\* unknown-query-number error as the error value of its Result: no query text,
\* and no other way of ending.
C15_UnknownQueryIsError ==
    (query # NoResult /\ query.nr \notin 1..22) =>
        /\ query.kind = "err"
        /\ query.error = "UnknownQueryNumber"

\* The previous call of the session was a reset-only call, and so is the call
\* in slot p, which has ended.
ResetTwice(p) == pc[p] = "done" /\ args[p].sf = 0 /\ last.reset

\* C16 (as stated): from any contents of the tables, two reset-only calls in a
\* row leave all eight tables empty after the first and after the second, and
\* both calls succeed with the same result.
C16_ResetTwiceSucceeds ==
    \A p \in Procs :
        ResetTwice(p) =>
            /\ last.result = OkTruncated /\ before[p] = Empty
            /\ result[p] = last.result /\ tables = Empty

\* C16 (amended): a reset-only call that succeeds leaves all eight tables empty,
\* from any contents; a reset-only call right after it leaves them empty again,
\* whether it succeeds or fails, and when it succeeds it returns the same
\* message. A reset-only call whose statement fails returns that error and
\* leaves the tables as they were.
C16_ResetIdempotent ==
    \A p \in Procs :
        ResetTwice(p) =>
            /\ last.result \in {OkTruncated, ErrSpi} /\ result[p] \in {OkTruncated, ErrSpi}
            /\ before[p] = (IF last.result = OkTruncated THEN Empty ELSE last.before)
            /\ tables = (IF result[p] = OkTruncated THEN Empty ELSE before[p])
            /\ last.result = OkTruncated => tables = Empty
            /\ (last.result = OkTruncated /\ result[p].kind = "ok") => result[p] = last.result

\* Two reset-only calls in a row succeeded, the first over eight tables that all
\* held rows.
C16_Witness ==
    \E p \in Procs :
        /\ ResetTwice(p)
        /\ \A t \in Tables : last.before[t] # EmptyBag
        /\ last.result = OkTruncated /\ result[p] = OkTruncated
        /\ before[p] = Empty /\ tables = Empty

\* C17: when a call with sf != 0 returns success, each of the eight tables was
\* ingested once in this invocation, no step of it failed, and the message
\* reports the scale factor and the partition as (step + 1)/children.
C17_SuccessMessage ==
    \A p \in Procs :
        (pc[p] = "done" /\ args[p].sf # 0 /\ result[p].kind = "ok") =>
            /\ result[p].msg =
                  [text |-> "TPC-H SF={} loaded (part {}/{})", sf |-> args[p].sf,
                   part |-> I64Succ(args[p].step), of |-> args[p].children]
            /\ \A i \in DOMAIN trace[p] : trace[p][i].ok
            /\ \A k \in DOMAIN ClaimedOrder :
                  Cardinality({i \in OpsOf(trace[p], "ingest") :
                                  TableNames[trace[p][i].t] = ClaimedOrder[k]}) = 1

\* The single load (children = 1, step = 0) returned "part 1/1" with all eight
\* tables loaded.
C17_Witness ==
    \E p \in Procs :
        /\ pc[p] = "done" /\ args[p] = [sf |-> 1, children |-> I64(1), step |-> I64(0)]
        /\ result[p].kind = "ok"
        /\ result[p].msg.part = I64(1) /\ result[p].msg.of = I64(1) /\ result[p].msg.sf = 1
        /\ \A t \in Tables : tables[t] = SetToBag(AllRows(1))

\* The lines of the file of the slice the generator of p yields for table t.
SliceLines(p, t) ==
    LET slice == Generator(t, gen[p].sf, gen[p].part, gen[p].num_parts)
    IN  <<[line |-> CsvHeader(t), by |-> Me(p)]>>
        \o [i \in 1..Len(slice) |-> [line |-> CsvLine(t, slice[i]), by |-> Me(p)]]

\* C18: for each table the steps are create, header, rows, ingest, delete, in
\* that order: when the ingest starts every row has been written, and the file
\* holds exactly the header followed by one line per row of the invocation's
\* slice, all written by this invocation, whatever an earlier invocation left at
\* the path; what is ingested is that slice; the delete follows the ingest.
C18_ArtifactLifecycle ==
    \A p \in Procs :
        LET tr == trace[p]
            Last(op, t, hi) ==
                {i \in OpsOf(tr, op) : tr[i].t = t /\ tr[i].ok /\ i < hi}
        IN  /\ pc[p] = "copy" =>
                  /\ todo[p] = <<>>
                  /\ gen[p].built /\ gen[p].t = cur[p]
                  /\ staging[MyPath(p)].exists
                  /\ staging[MyPath(p)].slots = SliceLines(p, cur[p])
                  /\ Last("create", cur[p], Len(tr) + 1) # {}
                  /\ Last("ingest", cur[p], Len(tr) + 1) = {}
            /\ \A i \in OpsOf(tr, "ingest") :
                  tr[i].ok =>
                      /\ tr[i].by = {Me(p)}
                      /\ tr[i].rows =
                            BagOfSeq(Generator(tr[i].t, gen[p].sf, gen[p].part, gen[p].num_parts))
                      /\ Last("create", tr[i].t, i) # {}
                      /\ Last("delete", tr[i].t, i) = {}
            /\ \A i \in OpsOf(tr, "delete") :
                  tr[i].ok => Last("ingest", tr[i].t, i) # {}

\* An invocation is about to ingest a file with rows, at a path where an earlier
\* invocation had left its file behind.
C18_Witness ==
    \E p \in Procs :
        /\ pc[p] = "copy"
        /\ Len(staging[MyPath(p)].slots) >= 2
        /\ \E i \in OpsOf(trace[p], "create") :
              /\ trace[p][i].t = cur[p]
              /\ trace[p][i].by # {} /\ Me(p) \notin trace[p][i].by

\* C19 (as stated): the invalid-partition-spec error carries the children and
\* the step the caller passed, for every rejected pair, negative values included.
C19_ErrorCarriesArguments ==
    \A p \in Procs :
        (pc[p] = "done" /\ result[p].kind = "err"
            /\ result[p].error = "PreparedStatementArgumentMismatch") =>
            /\ result[p].expected = [wraps |-> 0, off |-> args[p].children]
            /\ result[p].got = [wraps |-> 0, off |-> args[p].step]

====
